---------------------------- MODULE Spec2Model ----------------------------
(***************************************************************************)
(* TunnelHub: the admission controller (token-bucket rate limiter and      *)
(* request-size gate of main.py's dos_protection middleware), the session  *)
(* store and the routes that use it, and the RSA key resolution of         *)
(* security.py.                                                            *)
(*                                                                         *)
(* Time.  The clock time.time() is read in ticks of 60/(RATE_LIMIT_RPM *   *)
(* TicksPerToken) seconds, so that one tick refills exactly 1/TicksPerToken*)
(* of a token (refill_per_sec = RATE_LIMIT_RPM/60).  Token counts are kept *)
(* in units of 1/TicksPerToken token: 1.0 token is TicksPerToken units and *)
(* float(RATE_LIMIT_RPM) is RATE_LIMIT_RPM * TicksPerToken units.  The     *)
(* arithmetic is exact (the rounding of Python floats is not modelled).    *)
(* The clock is a wall clock: it may stand still or step backwards.        *)
(*                                                                         *)
(* Requests.  A request runs the middleware up to its call_next (no await  *)
(* in between: one step), then waits in flight, then runs its route handler*)
(* (no await inside the handlers modelled: one step).                      *)
(***************************************************************************)
EXTENDS Integers, Sequences, FiniteSets, Bags, TLC

\* ------------------------------------------------------------------ bounds
MaxCapacity == 3
TicksPerToken == 3
MaxTime == 7
MaxInflight == 1
MaxWaiting == 3

\* --------------------------------------------------------------- constants
\* int(os.getenv("MAX_REQUEST_SIZE", str(5 * 1024 * 1024)))
MAX_REQUEST_SIZE == 5242880

HTTP_200_OK == 200
HTTP_400_BAD_REQUEST == 400
HTTP_401_UNAUTHORIZED == 401
HTTP_413_REQUEST_ENTITY_TOO_LARGE == 413
HTTP_429_TOO_MANY_REQUESTS == 429
HTTP_500_INTERNAL_SERVER_ERROR == 500

\* request.client.host, or "unknown" when the connection has no client address
Clients == {"10.0.0.1", "unknown"}

\* the paths the middleware lets through without rate limiting or size check
ExemptPaths == {"/", "/api/public-key", "/favicon.ico", "/docs", "/openapi.json"}

PublicKeyPath == "/api/public-key"
HealthPath == "/api/health"
VerifyPath == "/api/verify"
LogoutPath == "/api/logout"
TunnelNamePath == "/api/tunnels/{tunnel_id}/name"

Min(a, b) == IF a < b THEN a ELSE b
Max(a, b) == IF a > b THEN a ELSE b

\* ADMIN_PASSWORD = os.getenv("ADMIN_PASSWORD", "admin123")
ADMIN_PASSWORD == "admin123"
\* the plaintexts a client may encrypt: the admin password, another ASCII
\* string, and a string with a character outside ASCII
NonAsciiPasswords == {"p\\u00e4ssword"}
Passwords == {"admin123", "wrong"} \cup NonAsciiPasswords

\* session tokens (secrets.token_hex(32) values), tunnel ids and custom names;
\* Forged is a token a client makes up: tokens are unguessable, so it is none
\* that the server ever issues
Tokens == {"t1", "t2"}
Forged == "forged"
TunnelIds == {"tn_1"}
Names == {"alpha", "beta"}

\* key pairs: the private key k and its public PEM are both written k;
\* None is Python's None (no key, no file, variable unset), Garbage is text
\* that load_pem_private_key cannot parse
Keys == {"k1", "k2"}
\* key pairs made elsewhere: supplied through the environment (RSA_PRIVATE_KEY,
\* RSA_PUBLIC_KEY), or left in the key files by an earlier process
SuppliedKeys == {"e1", "f1"}
None == "None"
Garbage == "garbage"

VARIABLES
    RATE_LIMIT_RPM,     \* the configured capacity, requests per minute
    now,                \* the reading of time.time(), in ticks
    has_store,          \* hasattr(dos_protection, "_store")
    store,              \* dos_protection._store: client -> {"tokens", "last"}
    sessions,           \* sessions: token -> SessionData
    custom_names,       \* custom_names: tunnel_id -> custom_name
    IS_SERVERLESS,      \* security.IS_SERVERLESS
    mem,                \* _in_memory_private_key, _in_memory_public_key_pem
    env,                \* os.environ RSA_PRIVATE_KEY, RSA_PUBLIC_KEY
    files,              \* the contents of PRIVATE_KEY_PATH, PUBLIC_KEY_PATH
    disk,               \* how far a write of the key files gets (see WriteOutcomes)
    started,            \* startup_event has run
    inflight,           \* requests past the middleware, awaiting their handler
    resp,               \* the last thing the server did for a request
    issued,             \* observer: the tokens generate_session_token has returned
    logged_out,         \* observer: the tokens whose logout request has completed
    generated,          \* observer: the key pairs rsa.generate_private_key has returned
    hist,               \* observer: per client, its requests since its bucket was made
    waiting,            \* requests of the middleware at `async with dos_protection._lock`
    admitted,           \* observer: per client, the requests that took a token
    cli                 \* a run of `python security.py` beside the server: its position

rateVars == <<RATE_LIMIT_RPM, now, has_store, store>>
authVars == <<sessions, custom_names>>
keyVars == <<IS_SERVERLESS, mem, env, files, disk, started>>
vars == <<RATE_LIMIT_RPM, now, has_store, store, sessions, custom_names,
          IS_SERVERLESS, mem, env, files, disk, started, inflight, resp, issued,
          logged_out, generated, hist, waiting, admitted, cli>>
\* what only the steps of the middleware's lock and of the other process change
sideVars == <<waiting, admitted, cli>>

\* ------------------------------------------------------------ rate limiter
\* 1.0 token and float(RATE_LIMIT_RPM), in token units
OneToken == TicksPerToken
Capacity == RATE_LIMIT_RPM * TicksPerToken

\* entry = {"tokens": float(RATE_LIMIT_RPM), "last": now}
NewEntryAt(t) == [tokens |-> Capacity, last |-> t]
NewEntry == NewEntryAt(now)

\* Refill without the cap min(float(RATE_LIMIT_RPM), ...)
RefillUncapped(entry) ==
    LET elapsed == now - entry.last
    IN  IF elapsed > 0
        THEN [tokens |-> entry.tokens + elapsed, last |-> now]
        ELSE entry

\* elapsed = now - entry["last"]; if elapsed > 0: refill, capped, and move "last"
RefillAt(entry, t) ==
    LET elapsed == t - entry.last
    IN  IF elapsed > 0
        THEN [tokens |-> Min(Capacity, entry.tokens + elapsed), last |-> t]
        ELSE entry
Refill(entry) == RefillAt(entry, now)

\* int(max(1, (1.0 - entry["tokens"]) / refill_per_sec)), in seconds:
\* (1.0 - tokens) / (RATE_LIMIT_RPM / 60.0) = (OneToken - t) * 60 / (OneToken * RPM),
\* a positive number, which int() truncates
RetryAfter(tokens) ==
    Max(1, ((OneToken - tokens) * 60) \div (OneToken * RATE_LIMIT_RPM))

\* RateLimited with <= for <
RateLimitedAtOne(entry) == entry.tokens <= OneToken

\* if entry["tokens"] < 1.0: the request is rejected with 429
RateLimited(entry) == entry.tokens < OneToken

\* Consume that takes half a token
ConsumeHalf(entry) == [entry EXCEPT !.tokens = @ - (OneToken \div 2)]

\* entry["tokens"] -= 1.0
Consume(entry) == [entry EXCEPT !.tokens = @ - OneToken]

\* SkipsAdmission with "/api/public-key" missing from the list
SkipsAdmissionButPublicKey(path) == path \in ExemptPaths \ {PublicKeyPath}

\* if request.url.path in ["/", "/api/public-key", "/favicon.ico", "/docs", "/openapi.json"]
SkipsAdmission(path) == path \in ExemptPaths

\* The Content-Length header: absent, not a number, or a number
ContentLengths ==
    {[kind |-> "absent", n |-> 0], [kind |-> "invalid", n |-> 0],
     [kind |-> "int", n |-> MAX_REQUEST_SIZE], [kind |-> "int", n |-> MAX_REQUEST_SIZE + 1]}

\* content_length = request.headers.get("content-length"); if content_length:
\* try: if int(content_length) > MAX_REQUEST_SIZE ... except ValueError: pass
TooLarge(content_length) ==
    content_length.kind = "int" /\ content_length.n > MAX_REQUEST_SIZE

\* what the request declares, whatever the middleware makes of it
DeclaresTooLarge(content_length) ==
    content_length.kind = "int" /\ content_length.n > MAX_REQUEST_SIZE

\* dos_protection._store[client] = entry (and the in-place updates of entry)
Put(st, client, entry) ==
    [c \in DOMAIN st \cup {client} |-> IF c = client THEN entry ELSE st[c]]

\* ------------------------------------------------------------------- keys
NoKeys == [private |-> None, public |-> None]

\* `python security.py` is not running
NotRunning == [at |-> "none", key |-> None]

\* get_public_key_pem that reads the file before the environment
get_public_key_pem_file_first ==
    IF mem.public # None THEN [error |-> "none", value |-> mem.public]
    ELSE IF files.public # None THEN [error |-> "none", value |-> files.public]
    ELSE IF env.public # None THEN [error |-> "none", value |-> env.public]
    ELSE [error |-> "FileNotFoundError", value |-> None]

\* get_public_key_pem(): memory, then environment, then file
get_public_key_pem ==
    IF mem.public # None THEN [error |-> "none", value |-> mem.public]
    ELSE IF env.public # None THEN [error |-> "none", value |-> env.public]
    ELSE IF files.public # None THEN [error |-> "none", value |-> files.public]
    ELSE [error |-> "FileNotFoundError", value |-> None]

\* serialization.load_pem_private_key(pem): the key, or ValueError
load_pem_private_key(pem) ==
    IF pem \in Keys \cup SuppliedKeys THEN [error |-> "none", value |-> pem]
    ELSE [error |-> "ValueError", value |-> None]

\* load_private_key(): memory, then environment, then file
load_private_key ==
    IF mem.private # None THEN [error |-> "none", value |-> mem.private]
    ELSE IF env.private # None THEN load_pem_private_key(env.private)
    ELSE IF files.private # None THEN load_pem_private_key(files.private)
    ELSE [error |-> "FileNotFoundError", value |-> None]

\* A ciphertext: base64 of the PKCS#1 v1.5 encryption of `password` under the
\* public key `key`, or a damaged form of it.
Encrypted(form, key, password) == [form |-> form, key |-> key, password |-> password]
Ciphertexts ==
    {Encrypted("ok", k, p) : k \in Keys, p \in Passwords}
    \cup {Encrypted("nonutf8", k, "") : k \in Keys}
    \cup {Encrypted("notbase64", None, ""), Encrypted("badpadding", None, "")}
NoCiphertext == Encrypted("absent", None, "")

\* decrypt_password(encrypted_password_b64): every exception becomes
\* ValueError("Failed to decrypt password: <its text>")
decrypt_password(ct) ==
    LET k == load_private_key
    IN  IF k.error # "none"
        THEN [ok |-> FALSE, password |-> "", error |-> k.error]
        ELSE IF ct.form = "notbase64"
        THEN [ok |-> FALSE, password |-> "", error |-> "binascii.Error"]
        ELSE IF ct.form = "badpadding" \/ ct.key # k.value
        THEN [ok |-> FALSE, password |-> "", error |-> "Decryption failed"]
        ELSE IF ct.form = "nonutf8"
        THEN [ok |-> FALSE, password |-> "", error |-> "UnicodeDecodeError"]
        ELSE [ok |-> TRUE, password |-> ct.password, error |-> "none"]

\* verify_password that accepts every password
verify_password_always(password, stored_password) == [error |-> "none", value |-> TRUE]

\* verify_password(password, stored_password): secrets.compare_digest, which
\* raises TypeError when a str argument has a non-ASCII character
verify_password(password, stored_password) ==
    IF password \in NonAsciiPasswords \/ stored_password \in NonAsciiPasswords
    THEN [error |-> "TypeError", value |-> FALSE]
    ELSE [error |-> "none", value |-> password = stored_password]

\* How far the try block of generate_rsa_key_pair gets on this disk: all
\* written, or an OSError at mkdir/open of the private file (nothing written),
\* while writing the private file (left damaged), at the open of the public
\* file (private file new, public file old) or while writing it.
WriteOutcomes == {"ok", "mkdir", "write_private", "open_public", "write_public"}

FilesAfter(k, outcome) ==
    CASE outcome = "ok" -> [private |-> k, public |-> k]
      [] outcome = "mkdir" -> files
      [] outcome = "write_private" -> [files EXCEPT !.private = Garbage]
      [] outcome = "open_public" -> [files EXCEPT !.private = k]
      [] outcome = "write_public" -> [private |-> k, public |-> Garbage]

\* generate_rsa_key_pair without the except branch's assignments: a failed
\* write is swallowed and the pair is kept nowhere
generate_rsa_key_pair_no_fallback(m) ==
    \E k \in Keys \ generated :
        /\ generated' = generated \cup {k}
        /\ IF IS_SERVERLESS
           THEN /\ mem' = [private |-> k, public |-> k]
                /\ files' = files
           ELSE /\ files' = FilesAfter(k, disk)
                /\ mem' = m

\* generate_rsa_key_pair(key_size), entered with the in-memory pair m
generate_rsa_key_pair(m) ==
    \E k \in Keys \ generated :
        /\ generated' = generated \cup {k}
        /\ IF IS_SERVERLESS
           THEN /\ mem' = [private |-> k, public |-> k]
                /\ files' = files
           ELSE /\ files' = FilesAfter(k, disk)
                /\ mem' = IF disk = "ok" THEN m ELSE [private |-> k, public |-> k]

\* ensure_keys_exist(key_size)
ensure_keys_exist ==
    IF mem.private # None /\ mem.public # None
    THEN UNCHANGED <<mem, files, generated>>
    ELSE LET fromEnv == env.private # None /\ env.public # None
             parsed == load_pem_private_key(env.private)
             m == IF fromEnv /\ parsed.error = "none"
                  THEN [private |-> parsed.value, public |-> env.public]
                  ELSE mem
         IN  IF IS_SERVERLESS \/ m.private = None
             THEN generate_rsa_key_pair(m)
             ELSE mem' = m /\ UNCHANGED <<files, generated>>

\* ---------------------------------------------------------------- requests
\* The Authorization header: absent, of another scheme, or "Bearer <token>"
NoAuthorization == [kind |-> "absent", token |-> None]
Authorizations ==
    {NoAuthorization} \cup [kind : {"basic", "bearer"}, token : Tokens \cup {Forged}]

\* the bearer token a request carries: auth_header[7:], or None
Bearer(authorization) ==
    IF authorization.kind = "bearer" THEN authorization.token ELSE None

\* A request: the client address, the path, the Content-Length header, the
\* Authorization header and the (schema-valid) body of the route.
Request(client, path, content_length, authorization, ct, tunnel_id, custom_name) ==
    [client |-> client, path |-> path, content_length |-> content_length,
     authorization |-> authorization, encrypted_password |-> ct,
     tunnel_id |-> tunnel_id, custom_name |-> custom_name]

\* the requests that the clients `from` can send to `path`, with the
\* ciphertexts `cts` and the Authorization headers `auths` to choose from
RequestsTo(path, from, cts, auths) ==
    CASE path = VerifyPath ->
           {Request(c, path, cl, NoAuthorization, ct, None, None) :
              c \in from, cl \in ContentLengths, ct \in cts}
      [] path = TunnelNamePath ->
           {Request(c, path, cl, a, NoCiphertext, id, nm) :
              c \in from, cl \in ContentLengths, a \in auths,
              id \in TunnelIds, nm \in Names}
      [] path = LogoutPath ->
           {Request(c, path, cl, a, NoCiphertext, None, None) :
              c \in from, cl \in ContentLengths, a \in auths}
      [] OTHER ->
           {Request(c, path, cl, NoAuthorization, NoCiphertext, None, None) :
              c \in from, cl \in ContentLengths}

\* What the server last did for a request: the middleware's answer (429, 413)
\* or its call_next (status 0), or the handler's response.
Event(stage, req, status, detail) ==
    [stage |-> stage, client |-> req.client, path |-> req.path,
     too_large |-> DeclaresTooLarge(req.content_length), status |-> status,
     scheme |-> req.authorization.kind, bearer |-> Bearer(req.authorization),
     retry_after |-> 0, detail |-> detail, success |-> FALSE,
     session_token |-> None, decrypted |-> FALSE]

NoContentLength == [kind |-> "absent", n |-> 0]
NoRequest == Request("", "", NoContentLength, NoAuthorization,
                     NoCiphertext, None, None)

\* What a route handler reads of a request: its path, headers and body (no
\* handler reads request.client or the Content-Length header).
HandlerView(req) == [req EXCEPT !.client = "", !.content_length = NoContentLength]
NoEvent == Event("none", NoRequest, 0, "")

\* ------------------------------------------------------------- middleware
\* response = await call_next(request): the request goes on to its handler
call_next(req) ==
    /\ BagCardinality(inflight) < MaxInflight
    /\ inflight' = inflight (+) SetToBag({HandlerView(req)})
    /\ resp' = Event("middleware", req, 0, "call_next")

\* JSONResponse(status_code=429, ..., headers={"Retry-After": str(retry_after)})
TooManyRequests(req, entry) ==
    /\ inflight' = inflight
    /\ resp' = [Event("middleware", req, HTTP_429_TOO_MANY_REQUESTS,
                      "Too many requests. Please slow down.")
                EXCEPT !.retry_after = RetryAfter(entry.tokens)]

\* PayloadTooLarge without its return: the 413 is built and the request goes on
PayloadTooLargeFallsThrough(req) ==
    /\ inflight' = inflight (+) SetToBag({HandlerView(req)})
    /\ resp' = Event("middleware", req, HTTP_413_REQUEST_ENTITY_TOO_LARGE,
                     "Request body too large")

\* return JSONResponse(status_code=413, content={"detail": "Request body too large"})
PayloadTooLarge(req) ==
    /\ inflight' = inflight
    /\ resp' = Event("middleware", req, HTTP_413_REQUEST_ENTITY_TOO_LARGE,
                     "Request body too large")

\* the size check of dos_protection, after the token was taken
CheckRequestSize(req) ==
    IF TooLarge(req.content_length) THEN PayloadTooLarge(req) ELSE call_next(req)

\* dos_protection(request, call_next), up to the response or the call_next
dos_protection(req) ==
    /\ started
    /\ IF SkipsAdmission(req.path)
       THEN /\ call_next(req)
            /\ UNCHANGED <<has_store, store>>
       ELSE LET entry == Refill(IF req.client \in DOMAIN store
                                THEN store[req.client] ELSE NewEntry)
            IN  /\ has_store' = TRUE
                /\ IF RateLimited(entry)
                   THEN /\ store' = Put(store, req.client, entry)
                        /\ TooManyRequests(req, entry)
                   ELSE /\ store' = Put(store, req.client, Consume(entry))
                        /\ CheckRequestSize(req)
    /\ UNCHANGED <<RATE_LIMIT_RPM, now, authVars, keyVars, issued, logged_out,
                   generated>>

EmptyMap == [x \in {} |-> None]

\* StoreOnArrival without the hasattr test: a new store for every request
StoreRecreated == EmptyMap

\* if not hasattr(dos_protection, "_store"): dos_protection._store = {}
StoreOnArrival == IF has_store THEN store ELSE EmptyMap

\* dos_protection up to its `async with dos_protection._lock`: the exempt
\* paths go on, the others make the store if there is none, read the client
\* and the clock, and come to the lock
dos_protection_arrives(req) ==
    /\ started
    /\ ~SkipsAdmission(req.path)
    /\ BagCardinality(waiting) < MaxWaiting
    /\ has_store' = TRUE
    /\ store' = StoreOnArrival
    /\ waiting' = waiting (+) SetToBag({[req |-> req, now |-> now]})
    /\ UNCHANGED <<RATE_LIMIT_RPM, now, authVars, keyVars, inflight, resp, issued,
                   logged_out, generated, admitted, cli>>

\* dos_protection from the lock on: the block under the lock (no await in it,
\* so no other request runs inside it), then the size check and call_next
dos_protection_locked(w) ==
    /\ BagIn(w, waiting)
    /\ waiting' = waiting (-) SetToBag({w})
    /\ LET client == w.req.client
           entry == RefillAt(IF client \in DOMAIN store
                             THEN store[client] ELSE NewEntryAt(w.now), w.now)
       IN  IF RateLimited(entry)
           THEN /\ store' = Put(store, client, entry)
                /\ TooManyRequests(w.req, entry)
                /\ admitted' = admitted
           ELSE /\ store' = Put(store, client, Consume(entry))
                /\ CheckRequestSize(w.req)
                /\ admitted' = [admitted EXCEPT ![client] = @ + 1]
    /\ UNCHANGED <<RATE_LIMIT_RPM, now, has_store, authVars, keyVars, issued,
                   logged_out, generated, cli>>

\* --------------------------------------------------------------- handlers

NoSession == [session_token |-> None, is_admin |-> FALSE, created_at |-> 0]

\* verify_session without the check of the "Bearer " prefix
verify_session_any_scheme(authorization) ==
    IF authorization.token \in DOMAIN sessions
    THEN sessions[authorization.token]
    ELSE NoSession

\* verify_session(request): the session of the bearer token, or None
verify_session(authorization) ==
    IF authorization.kind = "bearer" /\ authorization.token \in DOMAIN sessions
    THEN sessions[authorization.token]
    ELSE NoSession

\* security.generate_session_token(): secrets.token_hex(32), 256 random bits,
\* idealised as a value never returned before
generate_session_token == Tokens \ issued

\* the handler of req runs to its response
Respond(req, event) ==
    /\ started
    /\ BagIn(req, inflight)
    /\ inflight' = inflight (-) SetToBag({req})
    /\ resp' = event
    /\ UNCHANGED <<rateVars, keyVars, generated>>

\* GET /api/public-key
get_public_key(req) ==
    /\ req.path = PublicKeyPath
    /\ LET pem == get_public_key_pem
       IN  Respond(req, IF pem.error = "none"
                        THEN Event("handler", req, HTTP_200_OK, pem.value)
                        ELSE Event("handler", req, HTTP_500_INTERNAL_SERVER_ERROR,
                                   pem.error))
    /\ UNCHANGED <<authVars, issued, logged_out>>

\* GET /api/health
health_check(req) ==
    /\ req.path = HealthPath
    /\ Respond(req, Event("handler", req, HTTP_200_OK, "running"))
    /\ UNCHANGED <<authVars, issued, logged_out>>

\* POST /api/verify
verify_login(req) ==
    /\ req.path = VerifyPath
    /\ LET d == decrypt_password(req.encrypted_password)
           v == verify_password(d.password, ADMIN_PASSWORD)
           tried == [Event("handler", req, HTTP_200_OK, "") EXCEPT !.decrypted = TRUE]
       IN  IF ~d.ok \/ v.error # "none"
           THEN /\ Respond(req, [tried EXCEPT !.status = HTTP_400_BAD_REQUEST,
                                              !.detail = IF ~d.ok THEN d.error
                                                         ELSE v.error])
                /\ UNCHANGED <<authVars, issued, logged_out>>
           ELSE IF v.value
           THEN \E session_token \in generate_session_token :
                /\ sessions' = [t \in DOMAIN sessions \cup {session_token} |->
                                  IF t = session_token
                                  THEN [session_token |-> session_token,
                                        is_admin |-> TRUE, created_at |-> now]
                                  ELSE sessions[t]]
                /\ issued' = issued \cup {session_token}
                /\ Respond(req, [tried EXCEPT !.success = TRUE,
                                              !.session_token = session_token,
                                              !.detail = "Login successful"])
                /\ UNCHANGED <<custom_names, logged_out>>
           ELSE /\ Respond(req, [tried EXCEPT !.detail = "Invalid password"])
                /\ UNCHANGED <<authVars, issued, logged_out>>

\* del_session that clears the store
del_session_all(session) == EmptyMap

\* del_session that deletes nothing
del_session_skipped(session) == sessions

\* del sessions[session.session_token]
del_session(session) ==
    [t \in DOMAIN sessions \ {session.session_token} |-> sessions[t]]

\* POST /api/logout
logout(req) ==
    /\ req.path = LogoutPath
    /\ LET session == verify_session(req.authorization)
       IN  sessions' = IF session # NoSession THEN del_session(session)
                       ELSE sessions
    /\ Respond(req, [Event("handler", req, HTTP_200_OK, "Logged out successfully")
                     EXCEPT !.success = TRUE])
    /\ logged_out' = logged_out \cup ({Bearer(req.authorization)} \ {None})
    /\ UNCHANGED <<custom_names, issued>>

\* PUT /api/tunnels/{tunnel_id}/name
set_tunnel_name(req) ==
    /\ req.path = TunnelNamePath
    /\ LET session == verify_session(req.authorization)
       IN  IF session = NoSession
           THEN /\ Respond(req, Event("handler", req, HTTP_401_UNAUTHORIZED,
                                      "Authentication required"))
                /\ UNCHANGED custom_names
           ELSE /\ custom_names' =
                      [id \in DOMAIN custom_names \cup {req.tunnel_id} |->
                         IF id = req.tunnel_id THEN req.custom_name
                         ELSE custom_names[id]]
                /\ Respond(req, [Event("handler", req, HTTP_200_OK,
                                       "Custom name updated successfully")
                                 EXCEPT !.success = TRUE])
    /\ UNCHANGED <<sessions, issued, logged_out>>

\* ------------------------------------------------------------ environment
\* time.time() returns another reading: later, or (a stepped wall clock) earlier
Tick ==
    /\ \E t \in (0 .. MaxTime) \ {now} : now' = t
    /\ UNCHANGED <<RATE_LIMIT_RPM, has_store, store, authVars, keyVars, inflight,
                   resp, issued, logged_out, generated>>

\* startup_event(): security.ensure_keys_exist(RSA_KEY_SIZE), before any request
startup_event ==
    /\ ~started
    /\ started' = TRUE
    /\ ensure_keys_exist
    /\ UNCHANGED <<rateVars, authVars, IS_SERVERLESS, env, disk, inflight, resp, issued,
                   logged_out>>

\* What the key functions of security.py last did, when called directly
KeyEvent(op) == Event(op, NoRequest, 0, op)

\* security.ensure_keys_exist(key_size), called again after the startup
ensure_keys_again ==
    /\ started
    /\ ensure_keys_exist
    /\ resp' = KeyEvent("ensure_keys_exist")
    /\ UNCHANGED <<rateVars, authVars, IS_SERVERLESS, env, disk, started, inflight,
                   issued, logged_out>>

\* security.generate_rsa_key_pair(key_size), called directly after the startup
generate_again ==
    /\ started
    /\ generate_rsa_key_pair(mem)
    /\ resp' = KeyEvent("generate_rsa_key_pair")
    /\ UNCHANGED <<rateVars, authVars, IS_SERVERLESS, env, disk, started, inflight,
                   issued, logged_out>>

\* the key files are deleted from the disk (by an operator, a cleanup)
KeyFilesRemoved ==
    /\ started
    /\ files # NoKeys
    /\ files' = NoKeys
    /\ UNCHANGED <<rateVars, authVars, IS_SERVERLESS, mem, env, disk, started,
                   inflight, resp, issued, logged_out, generated>>

\* `python security.py`, run beside the server with the same environment and
\* the same keys directory: its ensure_keys_exist(2048) starts with nothing in
\* its own memory, adopts a complete environment pair and, as the server's
\* does, generates a pair when it adopted none or is serverless. What it
\* keeps in its own memory ends with the process; its writes to the key
\* files are seen by the server one at a time.
cli_ensure_keys_exist ==
    /\ cli = NotRunning
    /\ LET fromEnv == env.private # None /\ env.public # None
           parsed == load_pem_private_key(env.private)
           adopted == fromEnv /\ parsed.error = "none"
       IN  IF IS_SERVERLESS \/ ~adopted
           THEN \E k \in Keys \ generated :
                  /\ generated' = generated \cup {k}
                  /\ cli' = IF IS_SERVERLESS \/ disk = "mkdir" THEN NotRunning
                            ELSE [at |-> "private", key |-> k]
           ELSE UNCHANGED <<generated, cli>>
    /\ resp' = KeyEvent("cli ensure_keys_exist")
    /\ UNCHANGED <<rateVars, authVars, IS_SERVERLESS, mem, env, files, disk, started,
                   inflight, issued, logged_out>>

\* with open(PRIVATE_KEY_PATH, 'wb') as f: f.write(private_pem), in that run
cli_writes_private ==
    /\ cli.at = "private"
    /\ IF disk = "write_private"
       THEN /\ files' = [files EXCEPT !.private = Garbage]
            /\ cli' = NotRunning
       ELSE /\ files' = [files EXCEPT !.private = cli.key]
            /\ cli' = [cli EXCEPT !.at = "public"]
    /\ resp' = KeyEvent("cli private key written")
    /\ UNCHANGED <<rateVars, authVars, IS_SERVERLESS, mem, env, disk, started,
                   inflight, issued, logged_out, generated>>

\* with open(PUBLIC_KEY_PATH, 'wb') as f: f.write(public_pem), in that run; it
\* then prints the public key and ends
cli_writes_public ==
    /\ cli.at = "public"
    /\ files' = CASE disk = "open_public" -> files
                  [] disk = "write_public" -> [files EXCEPT !.public = Garbage]
                  [] OTHER -> [files EXCEPT !.public = cli.key]
    /\ cli' = NotRunning
    /\ resp' = KeyEvent("cli public key written")
    /\ UNCHANGED <<rateVars, authVars, IS_SERVERLESS, mem, env, disk, started,
                   inflight, issued, logged_out, generated>>

\* ------------------------------------------------------------- observer
\* Per client: n, the number of requests it has sent to rate-limited paths;
\* first, the clock reading at the first of them (when its bucket was made);
\* burst, whether all of them so far followed the schedule "RATE_LIMIT_RPM + 1
\* requests at the reading `first`, the later ones 60/RATE_LIMIT_RPM seconds
\* (TicksPerToken ticks) after it"; minute, whether all of them came less than
\* one minute (RATE_LIMIT_RPM * TicksPerToken ticks) after the first; quick,
\* whether all of them came less than 60/RATE_LIMIT_RPM seconds after the first.
NoHistory == [n |-> 0, first |-> 0, burst |-> TRUE, minute |-> TRUE, quick |-> TRUE]

\* a behaviour is observed for RATE_LIMIT_RPM + 3 requests of a client
MaxObserved == RATE_LIMIT_RPM + 3

Observe(req) ==
    IF SkipsAdmission(req.path)
    THEN hist' = hist
    ELSE LET h == hist[req.client]
             first == IF h.n = 0 THEN now ELSE h.first
             due == IF h.n + 1 <= RATE_LIMIT_RPM + 1 THEN first
                    ELSE first + TicksPerToken
         IN  /\ h.n < MaxObserved
             /\ hist' = [hist EXCEPT ![req.client] =
                           [n |-> h.n + 1, first |-> first,
                            burst |-> h.burst /\ now = due,
                            minute |-> h.minute /\ now >= first
                                       /\ now - first < RATE_LIMIT_RPM * TicksPerToken,
                            quick |-> h.quick /\ now >= first
                                      /\ now - first < TicksPerToken]]

\* ------------------------------------------------------------------ specs
\* the server as the module main.py leaves it, before startup_event
InitServer ==
    /\ has_store = FALSE
    /\ store = EmptyMap
    /\ sessions = EmptyMap
    /\ custom_names = EmptyMap
    /\ mem = NoKeys
    /\ started = FALSE
    /\ inflight = EmptyBag
    /\ resp = NoEvent
    /\ issued = {}
    /\ logged_out = {}
    /\ generated = {}
    /\ hist = [c \in Clients |-> NoHistory]
    /\ waiting = EmptyBag
    /\ admitted = [c \in Clients |-> 0]
    /\ cli = NotRunning

\* a local deployment with no key material in the environment, no key files
\* yet and a disk that can be written
InitLocal ==
    /\ IS_SERVERLESS = FALSE
    /\ env = NoKeys
    /\ files = NoKeys
    /\ disk = "ok"

\* any configured capacity, the clock at any reading
InitRate ==
    /\ InitServer
    /\ InitLocal
    /\ RATE_LIMIT_RPM \in 1 .. MaxCapacity
    /\ now \in 0 .. MaxTime

\* any configured capacity, the clock at 0
Init ==
    /\ InitServer
    /\ InitLocal
    /\ RATE_LIMIT_RPM \in 1 .. MaxCapacity
    /\ now = 0

\* Session tokens are unguessable: the token in a request's Authorization
\* header is one the server has issued, or one the client made up, which the
\* server never issues.
Presentable(req) == req.authorization.token \in issued \cup {Forged, None}

\* the requests of one client to the routes: any Content-Length, a password
\* (right or wrong) encrypted under some public key, and no Authorization
\* header, a token under another scheme or a bearer token; no Content-Length,
\* or one that is too large
SessionCiphertexts == {Encrypted("ok", k, p) : k \in Keys, p \in Passwords}
SessionAuthorizations ==
    Authorizations \ {[kind |-> "basic", token |-> Forged]}
SessionContentLengths ==
    {NoContentLength, [kind |-> "int", n |-> MAX_REQUEST_SIZE + 1]}
SessionPaths == {PublicKeyPath, VerifyPath, LogoutPath, TunnelNamePath}
SessionRequests ==
    {req \in UNION {RequestsTo(path, {"10.0.0.1"}, SessionCiphertexts,
                                SessionAuthorizations) : path \in SessionPaths} :
       req.content_length \in SessionContentLengths}

\* The session routes behind the admission controller.  The clock stands
\* still (the handlers read it only for created_at): the buckets only drain.
Next ==
    \/ startup_event /\ UNCHANGED <<hist, sideVars>>
    \/ \E req \in SessionRequests :
          Presentable(req) /\ dos_protection(req) /\ UNCHANGED <<hist, sideVars>>
    \/ \E req \in BagToSet(inflight) : get_public_key(req) /\ UNCHANGED <<hist, sideVars>>
    \/ \E req \in BagToSet(inflight) : verify_login(req) /\ UNCHANGED <<hist, sideVars>>
    \/ \E req \in BagToSet(inflight) : logout(req) /\ UNCHANGED <<hist, sideVars>>
    \/ \E req \in BagToSet(inflight) : set_tunnel_name(req) /\ UNCHANGED <<hist, sideVars>>

Spec == Init /\ [][Next]_vars

\* The admission controller over time, observed: one client's requests to a
\* rate-limited path and to an exempt path, whose handlers keep no state.
RateRequests ==
    RequestsTo(HealthPath, {"10.0.0.1"}, {}, {})
    \cup RequestsTo(PublicKeyPath, {"10.0.0.1"}, {}, {})

NextRate ==
    \/ startup_event /\ UNCHANGED <<hist, sideVars>>
    \/ Tick /\ UNCHANGED <<hist, sideVars>>
    \/ \E req \in RateRequests : dos_protection(req) /\ Observe(req) /\ UNCHANGED sideVars
    \/ \E req \in BagToSet(inflight) : health_check(req) /\ UNCHANGED <<hist, sideVars>>
    \/ \E req \in BagToSet(inflight) : get_public_key(req) /\ UNCHANGED <<hist, sideVars>>

SpecRate == InitRate /\ [][NextRate]_vars

\* The sessions over time: logins with the admin password, logouts and
\* lookups with bearer tokens, while the clock moves.
LifetimeRequests ==
    {req \in SessionRequests :
       /\ req.path \in {VerifyPath, LogoutPath}
       /\ req.content_length = NoContentLength
       /\ req.encrypted_password.password \in {"", ADMIN_PASSWORD}
       /\ req.authorization.kind \in {"absent", "bearer"}
       /\ req.authorization.token # Forged}

NextLifetime ==
    \/ startup_event /\ UNCHANGED <<hist, sideVars>>
    \/ Tick /\ UNCHANGED <<hist, sideVars>>
    \/ \E req \in LifetimeRequests :
          Presentable(req) /\ dos_protection(req) /\ UNCHANGED <<hist, sideVars>>
    \/ \E req \in BagToSet(inflight) : verify_login(req) /\ UNCHANGED <<hist, sideVars>>
    \/ \E req \in BagToSet(inflight) : logout(req) /\ UNCHANGED <<hist, sideVars>>

\* the smallest capacity, the clock at 0
InitLifetime ==
    /\ InitServer
    /\ InitLocal
    /\ RATE_LIMIT_RPM = 1
    /\ now = 0

SpecLifetime == InitLifetime /\ [][NextLifetime]_vars

\* The key resolution: every deployment mode, environment material (none, one
\* half, both; the private half parseable or not), key files of an earlier
\* process or none, and every way a write of the key files can fail.
InitKeys ==
    /\ InitServer
    /\ RATE_LIMIT_RPM = MaxCapacity
    /\ now = 0
    /\ IS_SERVERLESS \in BOOLEAN
    /\ env \in [private : {None, "e1", Garbage}, public : {None, "e1"}]
    /\ files \in {NoKeys, [private |-> "f1", public |-> "f1"]}
    /\ disk \in WriteOutcomes

NextKeys ==
    \/ startup_event /\ UNCHANGED <<hist, sideVars>>
    \/ ensure_keys_again /\ UNCHANGED <<hist, sideVars>>
    \/ generate_again /\ UNCHANGED <<hist, sideVars>>

SpecKeys == InitKeys /\ [][NextKeys]_vars

\* The server and a run of `python security.py` on the same key files: the
\* server's readers may run between any two steps of that run.
NextRegenerate ==
    \/ startup_event /\ UNCHANGED <<hist, sideVars>>
    \/ cli_ensure_keys_exist /\ UNCHANGED <<hist, waiting, admitted>>
    \/ cli_writes_private /\ UNCHANGED <<hist, waiting, admitted>>
    \/ cli_writes_public /\ UNCHANGED <<hist, waiting, admitted>>

SpecRegenerate == InitKeys /\ [][NextRegenerate]_vars

\* The routes that need a key, in a local deployment: logins with every kind
\* of ciphertext, and the key files may disappear.
VerifyRequests ==
    {req \in RequestsTo(VerifyPath, {"10.0.0.1"}, Ciphertexts, {})
              \cup RequestsTo(PublicKeyPath, {"10.0.0.1"}, {}, {}) :
       req.content_length = NoContentLength}

NextVerify ==
    \/ startup_event /\ UNCHANGED <<hist, sideVars>>
    \/ KeyFilesRemoved /\ UNCHANGED <<hist, sideVars>>
    \/ \E req \in VerifyRequests : dos_protection(req) /\ UNCHANGED <<hist, sideVars>>
    \/ \E req \in BagToSet(inflight) : get_public_key(req) /\ UNCHANGED <<hist, sideVars>>
    \/ \E req \in BagToSet(inflight) : verify_login(req) /\ UNCHANGED <<hist, sideVars>>

SpecVerify == Init /\ [][NextVerify]_vars

\* The middleware with its lock: requests of one client to a rate-limited
\* path arrive, wait at the lock and pass it in any order, all at the
\* same instant.
LockRequests == RequestsTo(HealthPath, {"10.0.0.1"}, {}, {})

NextLock ==
    \/ startup_event /\ UNCHANGED <<hist, sideVars>>
    \/ \E req \in LockRequests : dos_protection_arrives(req) /\ Observe(req)
    \/ \E w \in BagToSet(waiting) : dos_protection_locked(w) /\ UNCHANGED hist
    \/ \E req \in BagToSet(inflight) : health_check(req) /\ UNCHANGED <<hist, sideVars>>

SpecLock == InitRate /\ [][NextLock]_vars

\* ----------------------------------------------------------------- claims
\* the middleware's answer to (or call_next of) client c's latest request to a
\* rate-limited path
Answered(c) ==
    resp.stage = "middleware" /\ resp.client = c /\ resp.path \notin ExemptPaths
Rejected429 == resp.status = HTTP_429_TOO_MANY_REQUESTS

\* C1: in every reachable state every client's bucket holds at least 0 and at
\* most float(RATE_LIMIT_RPM) tokens, whatever requests were admitted or
\* rejected and whatever the clock did in between (forwards, standing still,
\* backwards).
C1_TokensWithinCapacity ==
    \A c \in DOMAIN store : 0 <= store[c].tokens /\ store[c].tokens <= Capacity

\* a request rejected with an empty bucket while the clock reads less than the
\* bucket's "last" (negative elapsed time), after a refill that hit the cap
\* (the bucket was made more than two tokens' time before "last", and no more
\* than RATE_LIMIT_RPM + 1 requests were admitted)
C1_Witness ==
    \E c \in DOMAIN store :
        /\ Answered(c) /\ Rejected429
        /\ now < store[c].last
        /\ store[c].tokens = 0
        /\ store[c].last - hist[c].first > 2 * TicksPerToken
        /\ hist[c].n = RATE_LIMIT_RPM + 2

\* C2: from a full bucket, RATE_LIMIT_RPM requests of one client to a
\* rate-limited path with no time elapsing are all admitted (not 429) and
\* request RATE_LIMIT_RPM + 1 is rejected with 429; request RATE_LIMIT_RPM + 2,
\* sent 60/RATE_LIMIT_RPM seconds later, is admitted and request
\* RATE_LIMIT_RPM + 3, sent at the same reading, is rejected.
C2_BurstThenOneRefill ==
    \A c \in Clients :
        (Answered(c) /\ hist[c].burst /\ hist[c].n >= 1) =>
            (Rejected429 <=> hist[c].n \in {RATE_LIMIT_RPM + 1, RATE_LIMIT_RPM + 3})

\* the whole schedule was followed and its last request was rejected
C2_Witness ==
    \E c \in Clients :
        /\ Answered(c) /\ hist[c].burst /\ hist[c].n = RATE_LIMIT_RPM + 3
        /\ Rejected429 /\ RATE_LIMIT_RPM = MaxCapacity

\* C3, as claimed: whatever the timing, the (RATE_LIMIT_RPM + 1)-th request a
\* client sends to a rate-limited path within one minute of its first is
\* rejected with 429 and carries Retry-After.
C3_Original ==
    \A c \in Clients :
        (Answered(c) /\ hist[c].n = RATE_LIMIT_RPM + 1 /\ hist[c].minute) =>
            (Rejected429 /\ resp.retry_after >= 1)

\* C3, amended: the (RATE_LIMIT_RPM + 1)-th request a client sends to a
\* rate-limited path less than 60/RATE_LIMIT_RPM seconds after its first is
\* rejected with 429 and carries Retry-After (of at least 1 second).
C3_RejectedBeforeFirstRefill ==
    \A c \in Clients :
        (Answered(c) /\ hist[c].n = RATE_LIMIT_RPM + 1 /\ hist[c].quick) =>
            (Rejected429 /\ resp.retry_after >= 1)

\* such a request, sent after the clock has moved on from the first
C3_Witness ==
    \E c \in Clients :
        /\ Answered(c) /\ hist[c].n = RATE_LIMIT_RPM + 1 /\ hist[c].quick
        /\ store[c].last > hist[c].first
        /\ Rejected429

\* the least whole number of seconds not below (1.0 - tokens) / refill_per_sec
CeilSeconds(tokens) ==
    LET num == (OneToken - tokens) * 60
        den == OneToken * RATE_LIMIT_RPM
    IN  (num + den - 1) \div den

\* C4, as claimed: whenever a request is rejected with 429, Retry-After is
\* max(1, ceil((1 - available_tokens) / refill_rate)) seconds, the tokens being
\* those of the bucket after its refill.
C4_RetryAfterIsCeiling ==
    (resp.stage = "middleware" /\ Rejected429) =>
        resp.retry_after = Max(1, CeilSeconds(store[resp.client].tokens))

\* C5, as claimed: a request whose declared Content-Length exceeds
\* MAX_REQUEST_SIZE is answered 413 by the middleware and is not passed on to a
\* handler, whatever the client's token count and whatever the path.
C5_Original ==
    (resp.stage = "middleware" /\ resp.too_large) =>
        resp.status = HTTP_413_REQUEST_ENTITY_TOO_LARGE

\* the middleware's step that answers a request with 429 or 413
Rejects ==
    /\ resp'.stage = "middleware"
    /\ resp'.status \in {HTTP_429_TOO_MANY_REQUESTS, HTTP_413_REQUEST_ENTITY_TOO_LARGE}

\* C6: a request the middleware rejects with 429 or 413 is not passed on to a
\* handler and its step decrypts nothing and leaves sessions and custom_names
\* as they are; and every step that decrypts a password, adds or removes a
\* session or writes custom_names is the handler's step of a request that was
\* passed on (it takes that request out of flight).
C6_AdmissionBeforeAuthentication ==
    [][/\ Rejects => /\ inflight' = inflight
                     /\ sessions' = sessions
                     /\ custom_names' = custom_names
                     /\ ~resp'.decrypted
       /\ (sessions' # sessions \/ custom_names' # custom_names \/ resp'.decrypted)
            => /\ resp'.stage = "handler"
               /\ BagCardinality(inflight') = BagCardinality(inflight) - 1]_vars

\* a logout request of a live session rejected with 429 after a custom name
\* was set: the session and the name are still there
C6_Witness ==
    /\ resp.stage = "middleware" /\ resp.status = HTTP_429_TOO_MANY_REQUESTS
    /\ resp.path = LogoutPath
    /\ resp.bearer \in DOMAIN sessions
    /\ custom_names # EmptyMap
    /\ inflight = EmptyBag

\* C7: a request to /api/public-key is never answered 429, never creates a
\* bucket and never changes one (nor the store attribute), whatever the
\* client's bucket holds, and without any session it is not answered 401.
C7_PublicKeyExempt ==
    [][resp'.path = PublicKeyPath =>
         /\ store' = store
         /\ has_store' = has_store
         /\ resp'.status \notin {HTTP_429_TOO_MANY_REQUESTS, HTTP_401_UNAUTHORIZED}]_vars

\* the public key served to a client whose bucket is empty and cannot have
\* refilled (a rate-limited request would be rejected), no session existing
C7_Witness ==
    /\ resp.stage = "handler" /\ resp.path = PublicKeyPath
    /\ resp.status = HTTP_200_OK
    /\ sessions = EmptyMap
    /\ \E c \in DOMAIN store : store[c].tokens = 0 /\ now <= store[c].last

\* C8, as claimed: a request to /api/health is never answered 429 by the
\* middleware and takes no token (the buckets are left as they are).
C8_Original ==
    [][(resp'.stage = "middleware" /\ resp'.path = HealthPath) =>
         (resp'.status # HTTP_429_TOO_MANY_REQUESTS /\ store' = store)]_vars

\* C9: once a logout request carrying token T has completed, every
\* PUT /api/tunnels/{tunnel_id}/name request carrying T that is handled is
\* answered 401 and leaves custom_names unchanged.
C9_LoggedOutTokenRefused ==
    [][(/\ resp'.stage = "handler" /\ resp'.path = TunnelNamePath
        /\ resp'.bearer \in logged_out)
         => (resp'.status = HTTP_401_UNAUTHORIZED /\ custom_names' = custom_names)]_vars

\* a token the server issued at a login, logged out, then presented again
C9_Witness ==
    /\ resp.stage = "handler" /\ resp.path = TunnelNamePath
    /\ resp.bearer \in issued \cap logged_out
    /\ resp.status = HTTP_401_UNAUTHORIZED

\* the handler's step that answers a request to `path`
Handles(path) == resp'.stage = "handler" /\ resp'.path = path

\* the store without the session of token t
Without(t) == [u \in DOMAIN sessions \ {t} |-> sessions[u]]

\* C11: a logout request is always answered 200 with success true; if its
\* bearer token has a session it removes that session and no other (every
\* other token keeps its session record), and if the header is absent, of
\* another scheme or carries a token without a session, sessions is unchanged.
C11_LogoutRemovesOnlyItsSession ==
    [][Handles(LogoutPath) =>
         /\ resp'.status = HTTP_200_OK /\ resp'.success
         /\ sessions' = IF resp'.bearer \in DOMAIN sessions
                        THEN Without(resp'.bearer) ELSE sessions]_vars

\* a logout that removed a session while another login's session stays
C11_Witness ==
    /\ resp.stage = "handler" /\ resp.path = LogoutPath
    /\ resp.bearer \in issued \ DOMAIN sessions
    /\ sessions # EmptyMap

\* C13: a PUT /api/tunnels/{tunnel_id}/name request is answered 200 (success)
\* exactly when its Authorization header is "Bearer <token>" with a token that
\* has a session; with no header, another scheme or a token without a session
\* it is answered 401 and custom_names is unchanged.
C13_AuthorizedIffActiveBearer ==
    [][Handles(TunnelNamePath) =>
         IF resp'.scheme = "bearer" /\ resp'.bearer \in DOMAIN sessions
         THEN resp'.status = HTTP_200_OK /\ resp'.success
         ELSE /\ resp'.status = HTTP_401_UNAUTHORIZED
              /\ ~resp'.success
              /\ custom_names' = custom_names]_vars

\* a request refused for its scheme while a session exists (the token it
\* carries is one the server issued)
C13_Witness ==
    /\ resp.stage = "handler" /\ resp.path = TunnelNamePath
    /\ resp.scheme = "basic"
    /\ resp.status = HTTP_401_UNAUTHORIZED
    /\ sessions # EmptyMap

\* the request whose handler runs in this step
Handled(req) == BagIn(req, inflight) /\ inflight' = inflight (-) SetToBag({req})

\* C14, as claimed: every POST /api/verify whose ciphertext decrypts to a
\* password other than ADMIN_PASSWORD is answered 200 with success false and
\* no session_token, and sessions is unchanged.
C14_Original ==
    [][\A req \in BagToSet(inflight) :
         (/\ Handles(VerifyPath) /\ Handled(req)
          /\ decrypt_password(req.encrypted_password).ok
          /\ decrypt_password(req.encrypted_password).password # ADMIN_PASSWORD)
           => /\ resp'.status = HTTP_200_OK
              /\ ~resp'.success
              /\ resp'.session_token = None
              /\ sessions' = sessions]_vars

\* C12: a session never expires: the record a login stored under token T
\* stays in sessions, unchanged, through every step (other logins, lookups and
\* logouts with other tokens, rejections by the rate limiter, the clock
\* moving) except the logout handler's step for a request carrying T.
C12_SessionStaysUntilLogout ==
    [][\A t \in DOMAIN sessions :
         \/ Handles(LogoutPath) /\ resp'.bearer = t
         \/ t \in DOMAIN sessions' /\ sessions'[t] = sessions[t]]_vars

\* a session made at an earlier clock reading is still there after another
\* login, the logout of that other token and a rejection by the rate limiter
C12_Witness ==
    /\ resp.stage = "middleware" /\ resp.status = HTTP_429_TOO_MANY_REQUESTS
    /\ \E t \in DOMAIN sessions :
          /\ sessions[t].created_at < now
          /\ issued # {t}
          /\ issued \ {t} \subseteq logged_out

\* the one message of a failed decryption, naming no cause
GenericFailure == "Authentication failed"

\* C15, as claimed: a POST /api/verify whose password cannot be decrypted is
\* answered with the same 4xx status and the same message whichever step
\* failed (base64 decoding, padding check, UTF-8 decoding): the message is the
\* generic one, with no exception text in it.
C15_Original ==
    [][\A req \in BagToSet(inflight) :
         (/\ Handles(VerifyPath) /\ Handled(req)
          /\ ~decrypt_password(req.encrypted_password).ok)
           => /\ resp'.status = HTTP_400_BAD_REQUEST
              /\ resp'.detail = GenericFailure]_vars

\* no tier (memory, environment, file) holds a public or a private key
KeyUnavailable ==
    /\ get_public_key_pem.error = "FileNotFoundError"
    /\ load_private_key.error = "FileNotFoundError"

\* C16, as claimed: while no key material is resolvable from any tier, GET
\* /api/public-key and POST /api/verify are both answered with a 5xx status.
C16_Original ==
    [][(KeyUnavailable /\ (Handles(PublicKeyPath) \/ Handles(VerifyPath)))
         => resp'.status \in 500 .. 599]_vars

\* the PEM that get_public_key_pem returns is the public half of the private
\* key that load_private_key returns (both return, and it is the same pair)
ResolvesPair ==
    /\ get_public_key_pem.error = "none"
    /\ load_private_key.error = "none"
    /\ get_public_key_pem.value = load_private_key.value

\* C17, as claimed: in every state after ensure_keys_exist has completed, in
\* both deployment modes, with any environment material and key files, and
\* after any later generate_rsa_key_pair, get_public_key_pem returns the
\* public half of the private key that load_private_key returns.
C17_Original == started => ResolvesPair

\* the step is a call of ensure_keys_exist after the one of the startup
EnsuresAgain == started /\ resp'.stage = "ensure_keys_exist"

\* C18, as claimed: a call of ensure_keys_exist after a first one has
\* completed generates no key pair, writes no key file and leaves what
\* get_public_key_pem and load_private_key return unchanged.
C18_Original ==
    [][EnsuresAgain =>
         /\ generated' = generated
         /\ files' = files
         /\ get_public_key_pem' = get_public_key_pem
         /\ load_private_key' = load_private_key]_vars

\* the step is a call of ensure_keys_exist: the startup's or a later one
Ensures == (~started /\ started') \/ EnsuresAgain

\* the environment holds both halves and the private one can be parsed
CompleteEnv == env.private \in Keys \cup SuppliedKeys /\ env.public # None
HoldsPair == mem.private # None /\ mem.public # None

\* C19, as claimed: ensure_keys_exist, called with no pair in memory and both
\* halves in the environment (parseable), adopts that pair and generates none,
\* in both deployment modes; it generates a pair only when there is neither a
\* pair in memory nor complete environment material.
C19_Original ==
    [][Ensures =>
         /\ (~HoldsPair /\ CompleteEnv) =>
               /\ generated' = generated
               /\ mem' = [private |-> env.private, public |-> env.public]
         /\ generated' # generated => (~HoldsPair /\ ~CompleteEnv)]_vars

\* the pair that generate_rsa_key_pair returns in this step
Returned == CHOOSE k \in generated' \ generated : TRUE

\* C20, as claimed: after generate_rsa_key_pair has returned the pair K (its
\* writes succeeding), get_public_key_pem returns K's public PEM and
\* load_private_key returns K's private key, in both deployment modes and
\* whatever was in memory before; in persistent mode the key files hold K.
C20_Original ==
    [][(generated' # generated /\ disk = "ok") =>
         /\ get_public_key_pem' = [error |-> "none", value |-> Returned]
         /\ load_private_key' = [error |-> "none", value |-> Returned]
         /\ ~IS_SERVERLESS => files' = [private |-> Returned, public |-> Returned]]_vars

\* C21: in persistent mode, when the write of the key files fails (at the
\* directory or the open of the private file, while writing the private file,
\* at the open of the public file or while writing it), generate_rsa_key_pair
\* still returns: the new pair is in memory, and get_public_key_pem and
\* load_private_key both resolve to it.
C21_WriteFailureFallsBackToMemory ==
    [][(generated' # generated /\ ~IS_SERVERLESS /\ disk # "ok") =>
         /\ mem' = [private |-> Returned, public |-> Returned]
         /\ get_public_key_pem' = [error |-> "none", value |-> Returned]
         /\ load_private_key' = [error |-> "none", value |-> Returned]]_vars

\* the write of the public file failed half-way, with other material in the
\* environment: the file is damaged and the new pair is served from memory
C21_Witness ==
    /\ ~IS_SERVERLESS /\ disk = "write_public"
    /\ files.public = Garbage /\ files.private \in generated
    /\ env.public # None
    /\ mem = [private |-> files.private, public |-> files.private]
    /\ get_public_key_pem.value = files.private
    /\ load_private_key.value = files.private

\* the tiers in their order of precedence, and those that hold a half
Tiers == <<mem, env, files>>
Holding(half) == {i \in 1 .. 3 : Tiers[i][half] # None}
First(half) == Tiers[CHOOSE i \in Holding(half) : \A j \in Holding(half) : i <= j][half]

\* C22: get_public_key_pem and load_private_key each take their key from the
\* first of memory, environment, file that holds material (whatever the lower
\* tiers hold: a private PEM that cannot be parsed is an error, not a reason
\* to go on to the next tier), and fail with FileNotFoundError exactly when no
\* tier holds material.
C22_ResolutionPrecedence ==
    /\ Holding("public") = {} <=> get_public_key_pem.error = "FileNotFoundError"
    /\ Holding("public") # {} =>
          get_public_key_pem = [error |-> "none", value |-> First("public")]
    /\ Holding("private") = {} <=> load_private_key.error = "FileNotFoundError"
    /\ Holding("private") # {} =>
          load_private_key = IF First("private") = Garbage
                             THEN [error |-> "ValueError", value |-> None]
                             ELSE [error |-> "none", value |-> First("private")]

\* the three tiers hold three different pairs and memory's is the one resolved
C22_Witness ==
    /\ mem.public \notin {None, env.public, files.public}
    /\ env.public \notin {None, files.public}
    /\ files.public # None
    /\ get_public_key_pem.value = mem.public
    /\ load_private_key.value = mem.private


\* the requests of client c that wait at the lock
AtLock(c) == BagCardinality([w \in {x \in BagToSet(waiting) : x.req.client = c} |-> waiting[w]])

\* C23: with no time elapsing, of the N requests of one client that have
\* passed the lock of the middleware, in whatever order they arrived and
\* passed, exactly min(N, k) took a token of the k of the bucket and the
\* bucket holds k - min(N, k) tokens; the store is made once and no step
\* removes a bucket from it.
C23_BucketUpdatesAreSerialised ==
    /\ [](\A c \in Clients :
            LET passed == hist[c].n - AtLock(c)
            IN  /\ admitted[c] = Min(passed, RATE_LIMIT_RPM)
                /\ c \in DOMAIN store =>
                      store[c].tokens = (RATE_LIMIT_RPM - admitted[c]) * OneToken
                /\ passed > 0 => c \in DOMAIN store)
    /\ [][has_store => (has_store' /\ DOMAIN store \subseteq DOMAIN store')]_vars

C23_Witness ==
    \E c \in Clients :
        /\ hist[c].n > RATE_LIMIT_RPM /\ RATE_LIMIT_RPM > 1
        /\ AtLock(c) = 0
        /\ admitted[c] = RATE_LIMIT_RPM
        /\ store[c].tokens = 0
        /\ resp.status = HTTP_429_TOO_MANY_REQUESTS

\* the pair that the server's readers resolve
Resolved == <<get_public_key_pem, load_private_key>>

\* the complete pair k
Pair(k) == <<[error |-> "none", value |-> k], [error |-> "none", value |-> k]>>

\* C24, as claimed: while a key pair is being regenerated beside the running
\* server, every step of the regeneration either leaves what the readers
\* resolve as it was (the old pair) or switches both halves to the new pair;
\* the readers never resolve the private key of one pair with the public key
\* of the other.
C24_Original ==
    [][(started /\ cli' # cli) =>
         \/ Resolved' = Resolved
         \/ Resolved' = Pair(cli.key)]_vars

\* the tokens of a bucket, in sixtieths of its unit, after the refill of a
\* request that comes r seconds after the bucket was last written:
\* min(float(RATE_LIMIT_RPM), tokens + elapsed * refill_per_sec), elapsed = r
TokensAfterSeconds(entry, r) ==
    Min(Capacity * 60, entry.tokens * 60 + r * RATE_LIMIT_RPM * OneToken)

\* C25, as claimed: when a client is rejected with 429 and Retry-After = r, the
\* refill of its next request, sent r seconds later with none in between,
\* brings the bucket to at least one token, so that request is admitted, for
\* every capacity and every token count at the rejection.
C25_Original ==
    (resp.stage = "middleware" /\ Rejected429) =>
        TokensAfterSeconds(store[resp.client], resp.retry_after) >= OneToken * 60

\* the step handles a POST /api/verify whose ciphertext decrypts to the admin
\* password, and answers it with success and the token t
AdminLogin(t) ==
    /\ Handles(VerifyPath)
    /\ resp'.success /\ resp'.session_token = t
    /\ \E req \in BagToSet(inflight) :
          /\ Handled(req)
          /\ req.path = VerifyPath
          /\ decrypt_password(req.encrypted_password).ok
          /\ decrypt_password(req.encrypted_password).password = ADMIN_PASSWORD

\* C26: every record of sessions is stored under its own session_token and
\* has is_admin true; a step that adds a record adds one, changes no other,
\* and is the handling of a POST /api/verify whose decrypted password equals
\* ADMIN_PASSWORD; a failed verify, a lookup, a logout or a rejected request
\* adds none.
C26_SessionsOnlyFromAdminLogin ==
    /\ [](\A t \in DOMAIN sessions :
            sessions[t].session_token = t /\ sessions[t].is_admin = TRUE)
    /\ [][\A t \in DOMAIN sessions' \ DOMAIN sessions :
            /\ AdminLogin(t)
            /\ DOMAIN sessions' = DOMAIN sessions \cup {t}
            /\ \A u \in DOMAIN sessions : sessions'[u] = sessions[u]]_vars

C26_Witness ==
    /\ resp.stage = "handler" /\ resp.path = VerifyPath /\ resp.success
    /\ resp.session_token \in DOMAIN sessions
    /\ sessions[resp.session_token].is_admin
    /\ logged_out # {}
    /\ Cardinality(DOMAIN sessions) = 1
=========================================================================
